---- MODULE Spec2Model ----
(***************************************************************************)
(* Model of the Grain meeting-list scraper: the HTML parser                *)
(* (parser.py: parse_meetings, parse_meeting_data, get_text_content,       *)
(* parse_meeting_id, parse_date_to_iso), the browser session (grain.py)    *)
(* and the two tools of the MCP server (main.py).                          *)
(*                                                                         *)
(* Strings are sequences of one-character strings, so that the regular     *)
(* expressions of the parser are matched character by character.           *)
(***************************************************************************)
EXTENDS Integers, Sequences, FiniteSets, TLC

VARIABLES
    doc_in,          \* parse_meetings: how the document is made up
    html,            \* parse_meetings: the document (html_content, parsed)
    pc,              \* parse_meetings: "start", "loop", "done" ("idle": no call)
    meeting_items,   \* parse_meetings: the located items, as paths
    i,               \* parse_meetings: the position of the for loop
    meetings,        \* parse_meetings: the list being built
    ret,             \* parse_meetings: the returned list, None before the return
    exc,             \* parse_meetings: the exception that escaped it, "" if none
    log,             \* parse_meetings: the messages passed to logger.error
    url, id_result, id_pc,                  \* a call of parse_meeting_id
    date_in,         \* parse_date_to_iso: how date_str is made up
    date_str, year,  \* parse_date_to_iso: its arguments
    now_year,        \* datetime.now().year
    iso,             \* parse_date_to_iso: the returned value
    date_exc,        \* parse_date_to_iso: the exception it raised, "" if none
    date_pc,         \* parse_date_to_iso: "call", "done" ("idle": no call)
    tool,            \* the tool invoked, with its arguments
    tpc,             \* the position of the tool invocation
    playwright,      \* Grain.__playwright: "None" or "set"
    context,         \* Grain.__context: "None" or "set"
    driver,          \* the Playwright driver: "none", "running", "stopped"
    browser,         \* the persistent browser context: "none", "open", "closed"
    logged_in,       \* whether __login ended on the meetings page
    texc,            \* the exception in flight in the invocation, "" if none
    raised,          \* whether a step of the invocation has raised
    pending,         \* the value of a return statement whose exit is under way
    saved,           \* the file written by download.save_as, None if none
    caught,          \* the exception caught by the tool's except clause
    tret,            \* the value returned by the tool, None before the return
    host_exc         \* the exception that escaped the tool, "" if none

tool_vars == <<tool, tpc, playwright, context, driver, browser, logged_in, texc,
               raised, pending, saved, caught, tret, host_exc>>
parse_vars == <<doc_in, html, pc, meeting_items, i, meetings, ret, exc, log>>
id_vars == <<url, id_result, id_pc>>
date_vars == <<date_in, date_str, year, now_year, iso, date_exc, date_pc>>

vars == <<parse_vars, id_vars, date_vars, tool_vars>>

\* An Optional[...] value is None or Some(v); Val gives v back
None == {}
Some(v) == {v}
Val(o) == CHOOSE v \in o : TRUE

\* Bind(e, LAMBDA x : body) is body with x the value of e: an assignment
\* x = e of the code, e being evaluated once
Bind(e, F(_)) == CHOOSE r \in {F(v) : v \in {e}} : TRUE

----------------------------------------------------------------------------
(* Characters *)

Digit == {"0", "1", "2", "3", "4", "5", "6", "7", "8", "9"}

LowerLetter == {"a", "b", "c", "d", "e", "f", "g", "h", "i", "j", "k", "l", "m",
                "n", "o", "p", "q", "r", "s", "t", "u", "v", "w", "x", "y", "z"}

UpperLetter == {"A", "B", "C", "D", "E", "F", "G", "H", "I", "J", "K", "L", "M",
                "N", "O", "P", "Q", "R", "S", "T", "U", "V", "W", "X", "Y", "Z"}

Letter == LowerLetter \cup UpperLetter

\* \s and str.strip()
Space == {" ", "\n"}

\* \w, for the \b of the year pattern
WordChar == Letter \cup Digit \cup {"_"}

LowerOf == [c \in UpperLetter |->
    CASE c = "A" -> "a" [] c = "B" -> "b" [] c = "C" -> "c" [] c = "D" -> "d"
      [] c = "E" -> "e" [] c = "F" -> "f" [] c = "G" -> "g" [] c = "H" -> "h"
      [] c = "I" -> "i" [] c = "J" -> "j" [] c = "K" -> "k" [] c = "L" -> "l"
      [] c = "M" -> "m" [] c = "N" -> "n" [] c = "O" -> "o" [] c = "P" -> "p"
      [] c = "Q" -> "q" [] c = "R" -> "r" [] c = "S" -> "s" [] c = "T" -> "t"
      [] c = "U" -> "u" [] c = "V" -> "v" [] c = "W" -> "w" [] c = "X" -> "x"
      [] c = "Y" -> "y" [] c = "Z" -> "z"]

\* str.lower() / str.upper() on one character
Lower(c) == IF c \in UpperLetter THEN LowerOf[c] ELSE c

LowerStr(s) == [k \in 1..Len(s) |-> Lower(s[k])]

DigitVal(c) ==
    CASE c = "0" -> 0 [] c = "1" -> 1 [] c = "2" -> 2 [] c = "3" -> 3
      [] c = "4" -> 4 [] c = "5" -> 5 [] c = "6" -> 6 [] c = "7" -> 7
      [] c = "8" -> 8 [] c = "9" -> 9

DigitChar(n) ==
    CASE n = 0 -> "0" [] n = 1 -> "1" [] n = 2 -> "2" [] n = 3 -> "3"
      [] n = 4 -> "4" [] n = 5 -> "5" [] n = 6 -> "6" [] n = 7 -> "7"
      [] n = 8 -> "8" [] n = 9 -> "9"

\* the character at position k, "" past either end of the string
At(s, k) == IF k \in 1..Len(s) THEN s[k] ELSE ""

\* the end (exclusive) of the longest run of characters of S that starts at k:
\* what a greedy S+ or S* consumes from position k
RunEnd(s, k, S) ==
    CHOOSE j \in k..(Len(s) + 1) :
        /\ \A m \in k..(j - 1) : s[m] \in S
        /\ At(s, j) \notin S

\* s[a..b-1]
Slice(s, a, b) == SubSeq(s, a, b - 1)

\* int() of a string of decimal digits
RECURSIVE ToIntUpTo(_, _)
ToIntUpTo(s, n) == IF n = 0 THEN 0 ELSE 10 * ToIntUpTo(s, n - 1) + DigitVal(s[n])

ToInt(s) == ToIntUpTo(s, Len(s))

\* str.strip()
Strip(s) ==
    IF \A k \in 1..Len(s) : s[k] \in Space THEN <<>>
    ELSE LET a == CHOOSE k \in 1..Len(s) :
                      s[k] \notin Space /\ \A m \in 1..(k - 1) : s[m] \in Space
             b == CHOOSE k \in 1..Len(s) :
                      s[k] \notin Space /\ \A m \in (k + 1)..Len(s) : s[m] \in Space
         IN  SubSeq(s, a, b)

----------------------------------------------------------------------------
(* parse_meeting_id *)

RecordingWord == <<"r", "e", "c", "o", "r", "d", "i", "n", "g">>

\* re.search(r'recordings?/([^/]+)', url) tried at position p: the end of
\* group 1 (exclusive) and its start, or None when the pattern does not
\* match at p
RecordingMatchAt(u, p) ==
    IF p + 8 > Len(u) \/ Slice(u, p, p + 9) # RecordingWord THEN None ELSE
    Bind(IF At(u, p + 9) = "s" THEN p + 10 ELSE p + 9, LAMBDA q :
    IF At(u, q) # "/" THEN None ELSE
    Bind(CHOOSE j \in (q + 1)..(Len(u) + 1) :
             /\ \A m \in (q + 1)..(j - 1) : u[m] # "/"
             /\ At(u, j) \in {"/", ""},
         LAMBDA e :
    IF e = q + 1 THEN None ELSE Some([start |-> q + 1, end |-> e])))

\* parse_meeting_id returning "" instead of None when nothing matches
parse_meeting_id_empty(u) ==
    Bind({p \in 1..Len(u) : RecordingMatchAt(u, p) # None}, LAMBDA hits :
    IF hits = {} THEN Some(<<>>) ELSE
    Bind(Val(RecordingMatchAt(u, CHOOSE x \in hits : \A y \in hits : x <= y)), LAMBDA m :
    Some(Slice(u, m.start, m.end))))

\* re.search takes the leftmost match
parse_meeting_id(u) ==
    Bind({p \in 1..Len(u) : RecordingMatchAt(u, p) # None}, LAMBDA hits :
    IF hits = {} THEN None ELSE
    Bind(Val(RecordingMatchAt(u, CHOOSE x \in hits : \A y \in hits : x <= y)), LAMBDA m :
    Some(Slice(u, m.start, m.end))))
----------------------------------------------------------------------------
(* parse_date_to_iso *)

OrdinalSuffix == {<<"s", "t">>, <<"n", "d">>, <<"r", "d">>, <<"t", "h">>}

\* re.match(grain_date_pattern, clean_date_str, re.IGNORECASE) with
\* grain_date_pattern =
\*   ([A-Za-z]+),\s+(\d+)(?:st|nd|rd|th)?\s+(\d+):(\d+)\s+(AM|PM)
\* The groups of the match, or None.  Every repetition is followed by a
\* character outside its class, so the greedy match is the only one.
grain_date_match(s) ==
    Bind(RunEnd(s, 1, Letter), LAMBDA a :
    IF a = 1 \/ At(s, a) # "," THEN None ELSE
    Bind(RunEnd(s, a + 1, Space), LAMBDA c :
    IF c = a + 1 THEN None ELSE
    Bind(RunEnd(s, c, Digit), LAMBDA d :
    IF d = c THEN None ELSE
    Bind(IF <<Lower(At(s, d)), Lower(At(s, d + 1))>> \in OrdinalSuffix THEN d + 2 ELSE d,
         LAMBDA e :
    Bind(RunEnd(s, e, Space), LAMBDA f :
    IF f = e THEN None ELSE
    Bind(RunEnd(s, f, Digit), LAMBDA g :
    IF g = f \/ At(s, g) # ":" THEN None ELSE
    Bind(RunEnd(s, g + 1, Digit), LAMBDA h :
    IF h = g + 1 THEN None ELSE
    Bind(RunEnd(s, h, Space), LAMBDA k :
    IF k = h \/ Lower(At(s, k)) \notin {"a", "p"} \/ Lower(At(s, k + 1)) # "m" THEN None
    ELSE Some([month_str |-> Slice(s, 1, a),
               day       |-> Slice(s, c, d),
               hours     |-> Slice(s, f, g),
               minutes   |-> Slice(s, g + 1, h),
               ampm      |-> Slice(s, k, k + 2)])))))))))

\* months = {'jan': 1, ..., 'dec': 12}; months.get(month_key, 1)
MonthNumber(month_key) ==
    CASE month_key = <<"j", "a", "n">> -> 1
      [] month_key = <<"f", "e", "b">> -> 2
      [] month_key = <<"m", "a", "r">> -> 3
      [] month_key = <<"a", "p", "r">> -> 4
      [] month_key = <<"m", "a", "y">> -> 5
      [] month_key = <<"j", "u", "n">> -> 6
      [] month_key = <<"j", "u", "l">> -> 7
      [] month_key = <<"a", "u", "g">> -> 8
      [] month_key = <<"s", "e", "p">> -> 9
      [] month_key = <<"o", "c", "t">> -> 10
      [] month_key = <<"n", "o", "v">> -> 11
      [] month_key = <<"d", "e", "c">> -> 12
      [] OTHER -> 1

\* the key taken without lower-casing: month_str[:3]
MonthKey_case_sensitive(month_str) ==
    SubSeq(month_str, 1, IF Len(month_str) < 3 THEN Len(month_str) ELSE 3)

\* month_str.lower()[:3]
MonthKey(month_str) ==
    Bind(LowerStr(month_str), LAMBDA low :
    SubSeq(low, 1, IF Len(low) < 3 THEN Len(low) ELSE 3))

\* the conversion without the rule for 12 AM
AdjustHours_no_midnight(ampm, hours) ==
    IF LowerStr(ampm) = <<"p", "m">> /\ hours < 12 THEN hours + 12 ELSE hours

\* 12-hour to 24-hour: the two ifs on ampm and hours
AdjustHours(ampm, hours) ==
    Bind(IF LowerStr(ampm) = <<"p", "m">> /\ hours < 12 THEN hours + 12 ELSE hours,
         LAMBDA pm :
    IF LowerStr(ampm) = <<"a", "m">> /\ pm = 12 THEN 0 ELSE pm)

IsLeap(y) == (y % 4 = 0 /\ y % 100 # 0) \/ y % 400 = 0

DaysInMonth(y, m) ==
    IF m = 2 THEN (IF IsLeap(y) THEN 29 ELSE 28)
    ELSE IF m \in {4, 6, 9, 11} THEN 30 ELSE 31

MINYEAR == 1
MAXYEAR == 9999

\* datetime(year, month, day, hour, minute, 0) does not raise ValueError
DatetimeOk(y, m, d, hh, mm) ==
    /\ y \in MINYEAR..MAXYEAR
    /\ m \in 1..12
    /\ d \in 1..DaysInMonth(y, m)
    /\ hh \in 0..23
    /\ mm \in 0..59

\* n in decimal, zero-padded to w digits
RECURSIVE Pad(_, _)
Pad(n, w) ==
    IF w = 0 THEN <<>> ELSE Append(Pad(n \div 10, w - 1), DigitChar(n % 10))

\* datetime.isoformat() of a datetime without microseconds and timezone
isoformat(y, m, d, hh, mm, ss) ==
    Pad(y, 4) \o <<"-">> \o Pad(m, 2) \o <<"-">> \o Pad(d, 2) \o <<"T">>
        \o Pad(hh, 2) \o <<":">> \o Pad(mm, 2) \o <<":">> \o Pad(ss, 2)

\* The outcome of a call: the exception it raises ("" if none) and the
\* value it returns
Returns(v) == [exc |-> "", value |-> v]
Raises(e) == [exc |-> e, value |-> None]

\* the body of the try block with the year argument ignored: the current
\* year is always used
DateTryBody_current_year(ds, yr, now) ==
    Bind(Strip(ds), LAMBDA clean_date_str :
    Bind(grain_date_match(clean_date_str), LAMBDA gm :
    IF gm = None THEN Returns(None) ELSE
    Bind(Val(gm), LAMBDA m :
    Bind(MonthNumber(MonthKey(m.month_str)), LAMBDA month :
    Bind(ToInt(m.day), LAMBDA day :
    Bind(ToInt(m.hours), LAMBDA h12 :
    Bind(AdjustHours(m.ampm, h12), LAMBDA hours :
    Bind(ToInt(m.minutes), LAMBDA minutes :
    IF DatetimeOk(now, month, day, hours, minutes)
    THEN Returns(Some(isoformat(now, month, day, hours, minutes, 0)))
    ELSE Raises("ValueError")))))))))

\* the body of the try block of parse_date_to_iso, for a non-empty date_str,
\* with datetime.now().year = now; datetime(...) raises ValueError
DateTryBody(ds, yr, now) ==
    Bind(Strip(ds), LAMBDA clean_date_str :
    Bind(grain_date_match(clean_date_str), LAMBDA gm :
    IF gm = None THEN Returns(None) ELSE
    Bind(Val(gm), LAMBDA m :
    Bind(MonthNumber(MonthKey(m.month_str)), LAMBDA month :
    Bind(ToInt(m.day), LAMBDA day :
    Bind(ToInt(m.hours), LAMBDA h12 :
    Bind(AdjustHours(m.ampm, h12), LAMBDA hours :
    Bind(ToInt(m.minutes), LAMBDA minutes :
    Bind(IF yr # None THEN Val(yr) ELSE now, LAMBDA use_year :
    IF DatetimeOk(use_year, month, day, hours, minutes)
    THEN Returns(Some(isoformat(use_year, month, day, hours, minutes, 0)))
    ELSE Raises("ValueError"))))))))))

\* an except clause that catches TypeError only
DateCatches_type_only(e) == e = "TypeError"

\* the except clause of parse_date_to_iso: except Exception
DateCatches(e) == e \in {"ValueError", "TypeError", "OverflowError"}

\* parse_date_to_iso(date_str, year) with datetime.now().year = now
parse_date_to_iso(ds, yr, now) ==
    IF ds = None \/ ds = Some(<<>>) THEN Returns(None)
    ELSE Bind(DateTryBody(Val(ds), yr, now), LAMBDA r :
         IF r.exc # "" /\ DateCatches(r.exc) THEN Returns(None) ELSE r)

----------------------------------------------------------------------------
(* The document tree (BeautifulSoup) *)

\* An element is a record
\*   [tag, id, role, datacy : strings ("" = attribute absent),
\*    href : Optional[str], text : its own text, kids : its child elements]
\* The own text of an element stands before its children.  A document is the
\* sequence of its top-level elements, an element is named by its path:
\* the child indices that lead from the document to it.

RECURSIVE NodeAt(_, _)
NodeAt(nodes, path) ==
    IF Len(path) = 1 THEN nodes[path[1]]
    ELSE NodeAt(nodes[path[1]].kids, Tail(path))

\* element.contents, of the document for the empty path
KidsAt(doc, path) == IF path = <<>> THEN doc ELSE NodeAt(doc, path).kids

\* element.parent
ParentOf(path) == SubSeq(path, 1, Len(path) - 1)

\* element.descendants (the elements among them), in document order
RECURSIVE DescFrom(_, _, _)
DescFrom(nodes, prefix, k) ==
    IF k > Len(nodes) THEN <<>>
    ELSE <<Append(prefix, k)>> \o DescFrom(nodes[k].kids, Append(prefix, k), 1)
                              \o DescFrom(nodes, prefix, k + 1)

Descendants(doc, path) == DescFrom(KidsAt(doc, path), path, 1)

\* the first of the paths that satisfy Test, or None
FirstPath(paths, Test(_)) ==
    Bind({k \in 1..Len(paths) : Test(paths[k])}, LAMBDA hits :
    IF hits = {} THEN None
    ELSE Some(paths[CHOOSE k \in hits : \A m \in hits : k <= m]))

\* soup.find(id=ident)
find_id(doc, ident) ==
    Bind(Descendants(doc, <<>>), LAMBDA paths :
    FirstPath(paths, LAMBDA p : NodeAt(doc, p).id = ident))

\* element.find(name)
find(doc, path, name) ==
    Bind(Descendants(doc, path), LAMBDA paths :
    FirstPath(paths, LAMBDA p : NodeAt(doc, p).tag = name))

\* find_all called on the whole document instead of the element
find_all_soup(doc, path, name, role, datacy) ==
    LET Test(p) == /\ NodeAt(doc, p).tag = name
                   /\ NodeAt(doc, p).role = role
                   /\ NodeAt(doc, p).datacy = datacy
    IN  SelectSeq(Descendants(doc, <<>>), Test)

\* element.find_all('a', attrs={'role': ..., 'data-cy': ...})
find_all(doc, path, name, role, datacy) ==
    LET Test(p) == /\ NodeAt(doc, p).tag = name
                   /\ NodeAt(doc, p).role = role
                   /\ NodeAt(doc, p).datacy = datacy
    IN  SelectSeq(Descendants(doc, path), Test)

\* element.find_previous_sibling(name=name)
find_previous_sibling(doc, path, name) ==
    Bind(KidsAt(doc, ParentOf(path)), LAMBDA sibs :
    Bind({k \in 1..(path[Len(path)] - 1) : sibs[k].tag = name}, LAMBDA hits :
    IF hits = {} THEN None
    ELSE Some(Append(ParentOf(path), CHOOSE k \in hits : \A m \in hits : m <= k))))

\* element.find_next_sibling(): the next element after it under its parent
find_next_sibling(doc, path) ==
    Bind(Len(KidsAt(doc, ParentOf(path))), LAMBDA n :
    IF path[Len(path)] + 1 > n THEN None
    ELSE Some(Append(ParentOf(path), path[Len(path)] + 1)))

\* element.get_text(strip=True): the stripped, non-empty strings under the
\* element, joined without a separator
RECURSIVE GetTextOf(_)
RECURSIVE GetTextAll(_, _)
GetTextOf(node) == Strip(node.text) \o GetTextAll(node.kids, 1)
GetTextAll(nodes, k) ==
    IF k > Len(nodes) THEN <<>>
    ELSE GetTextOf(nodes[k]) \o GetTextAll(nodes, k + 1)

\* get_text_content(element) for an Optional element
get_text_content(doc, element) ==
    IF element = None THEN None ELSE Some(GetTextOf(NodeAt(doc, Val(element))))

----------------------------------------------------------------------------
(* parse_meeting_data *)

\* re.search(r'\b(20\d{2})\b', sibling_text): int(group(1)) or None
year_match(text) ==
    Bind({p \in 1..(Len(text) - 3) :
             /\ text[p] = "2"
             /\ text[p + 1] = "0"
             /\ text[p + 2] \in Digit
             /\ text[p + 3] \in Digit
             /\ At(text, p - 1) \notin WordChar
             /\ At(text, p + 4) \notin WordChar},
         LAMBDA hits :
    IF hits = {} THEN None
    ELSE Bind(CHOOSE x \in hits : \A y \in hits : x <= y, LAMBDA p :
         Some(ToInt(SubSeq(text, p, p + 3)))))

\* the while loop over the preceding div siblings, entered with sibling
RECURSIVE YearFrom(_, _)
YearFrom(doc, sibling) ==
    IF sibling = None THEN None ELSE
    Bind(Val(get_text_content(doc, sibling)), LAMBDA sibling_text :
    Bind(IF sibling_text # <<>> THEN year_match(sibling_text) ELSE None, LAMBDA ym :
    IF ym # None THEN ym ELSE
    Bind(find_previous_sibling(doc, Val(sibling), "div"), LAMBDA previous :
    YearFrom(doc, previous))))

\* parse_meeting_data reading title_el.parent before the test of the title:
\* None has no attribute parent
parse_meeting_data_date_first(doc, item, now) ==
    Bind(find(doc, item, "h3"), LAMBDA title_el :
    Bind(get_text_content(doc, title_el), LAMBDA meeting_title :
    IF title_el = None
    THEN [exc |-> "AttributeError", msg |-> "parent"] ELSE
    Bind(NodeAt(doc, item).href, LAMBDA meeting_url :
    IF meeting_url = None
    THEN [exc |-> "ValueError", msg |-> "No URL found for meeting"] ELSE
    Bind(parse_meeting_id(Val(meeting_url)), LAMBDA meeting_id :
    IF meeting_id = None
    THEN [exc |-> "ValueError", msg |-> "No ID found for meeting"] ELSE
    Bind(find_previous_sibling(doc, item, "div"), LAMBDA sibling :
    Bind(YearFrom(doc, sibling), LAMBDA yr :
    Bind(find_next_sibling(doc, ParentOf(Val(title_el))), LAMBDA date_el :
    Bind(get_text_content(doc, date_el), LAMBDA date_text :
    Bind(parse_date_to_iso(date_text, yr, now), LAMBDA meeting_date :
    IF meeting_date.exc # ""
    THEN [exc |-> meeting_date.exc, msg |-> "date"]
    ELSE [exc |-> "",
          meeting |-> [id    |-> Val(meeting_id),
                       title |-> Val(meeting_title),
                       date  |-> meeting_date.value,
                       url   |-> Val(meeting_url)]])))))))))

\* parse_meeting_data treating the date as a required field
parse_meeting_data_date_required(doc, item, now) ==
    Bind(find(doc, item, "h3"), LAMBDA title_el :
    Bind(get_text_content(doc, title_el), LAMBDA meeting_title :
    IF meeting_title = None
    THEN [exc |-> "ValueError", msg |-> "No title found for meeting"] ELSE
    Bind(NodeAt(doc, item).href, LAMBDA meeting_url :
    IF meeting_url = None
    THEN [exc |-> "ValueError", msg |-> "No URL found for meeting"] ELSE
    Bind(parse_meeting_id(Val(meeting_url)), LAMBDA meeting_id :
    IF meeting_id = None
    THEN [exc |-> "ValueError", msg |-> "No ID found for meeting"] ELSE
    Bind(find_previous_sibling(doc, item, "div"), LAMBDA sibling :
    Bind(YearFrom(doc, sibling), LAMBDA yr :
    Bind(find_next_sibling(doc, ParentOf(Val(title_el))), LAMBDA date_el :
    Bind(get_text_content(doc, date_el), LAMBDA date_text :
    Bind(parse_date_to_iso(date_text, yr, now), LAMBDA meeting_date :
    IF meeting_date.value = None
    THEN [exc |-> "ValueError", msg |-> "No date found for meeting"] ELSE
    IF meeting_date.exc # ""
    THEN [exc |-> meeting_date.exc, msg |-> "date"]
    ELSE [exc |-> "",
          meeting |-> [id    |-> Val(meeting_id),
                       title |-> Val(meeting_title),
                       date  |-> meeting_date.value,
                       url   |-> Val(meeting_url)]])))))))))

\* parse_meeting_data(item): [exc |-> the exception, msg |-> ...] when it
\* raises, [exc |-> "", meeting |-> Meeting(...)] when it returns
parse_meeting_data(doc, item, now) ==
    Bind(find(doc, item, "h3"), LAMBDA title_el :
    Bind(get_text_content(doc, title_el), LAMBDA meeting_title :
    IF meeting_title = None
    THEN [exc |-> "ValueError", msg |-> "No title found for meeting"] ELSE
    Bind(NodeAt(doc, item).href, LAMBDA meeting_url :
    IF meeting_url = None
    THEN [exc |-> "ValueError", msg |-> "No URL found for meeting"] ELSE
    Bind(parse_meeting_id(Val(meeting_url)), LAMBDA meeting_id :
    IF meeting_id = None
    THEN [exc |-> "ValueError", msg |-> "No ID found for meeting"] ELSE
    Bind(find_previous_sibling(doc, item, "div"), LAMBDA sibling :
    Bind(YearFrom(doc, sibling), LAMBDA yr :
    Bind(find_next_sibling(doc, ParentOf(Val(title_el))), LAMBDA date_el :
    Bind(get_text_content(doc, date_el), LAMBDA date_text :
    Bind(parse_date_to_iso(date_text, yr, now), LAMBDA meeting_date :
    IF meeting_date.exc # ""
    THEN [exc |-> meeting_date.exc, msg |-> "date"]
    ELSE [exc |-> "",
          meeting |-> [id    |-> Val(meeting_id),
                       title |-> Val(meeting_title),
                       date  |-> meeting_date.value,
                       url   |-> Val(meeting_url)]])))))))))

----------------------------------------------------------------------------
(* Inputs of the two pure functions *)

\* the longest URL, in path segments
MaxSegs == 3

\* the largest of the consecutive hours written in a date text
MaxHour == 13

\* str(n) for n >= 0
RECURSIVE Dec(_)
Dec(n) == IF n < 10 THEN <<DigitChar(n)>> ELSE Append(Dec(n \div 10), DigitChar(n % 10))

RECURSIVE Join(_)
Join(segs) ==
    IF Len(segs) = 0 THEN <<>>
    ELSE IF Len(segs) = 1 THEN segs[1]
    ELSE segs[1] \o <<"/">> \o Join(Tail(segs))

SegInputs ==
    { RecordingWord, RecordingWord \o <<"s">>, <<"x">> \o RecordingWord,
      RecordingWord \o <<"x">>, <<"a", "b">>, <<"c">>, <<>> }

UrlInputs ==
    UNION { { Join(segs) : segs \in [1..n -> SegInputs] } : n \in 0..MaxSegs }

MonthInputs == { <<"M", "a", "r">>, <<"f", "e", "b">>, <<"A", "p", "r", "i", "l">>,
                 <<"X", "y", "z">> }
DayInputs == {0, 1, 29, 30, 31, 32}
HourInputs == 0..MaxHour \cup {23, 24}
MinuteInputs == {0, 5, 59, 60}
MeridiemInputs == { <<"A", "M">>, <<"P", "M">>, <<"p", "m">> }
ShapeInputs == {"plain", "suffix", "padded", "nocomma", "nomeridiem"}

\* a date text of the page: "Mar, 15th 2:30 PM" and its variations
DateText(shape, mon, d, hh, mm, mer) ==
    LET lead  == IF shape = "padded" THEN <<" ">> ELSE <<>>
        comma == IF shape = "nocomma" THEN <<>> ELSE <<",">>
        sfx   == IF shape \in {"suffix", "padded"} THEN <<"t", "h">> ELSE <<>>
        tail  == IF shape = "nomeridiem" THEN <<>> ELSE <<" ">> \o mer
        trail == IF shape = "padded" THEN <<" ", "4", "5", "m", " ">> ELSE <<>>
    IN  lead \o mon \o comma \o <<" ">> \o Dec(d) \o sfx \o <<" ">>
             \o Dec(hh) \o <<":">> \o Pad(mm, 2) \o tail \o trail

\* the descriptions of the date texts given to parse_date_to_iso
DateInputs ==
    [shape : ShapeInputs, mon : MonthInputs, d : DayInputs, hh : HourInputs,
     mm : MinuteInputs, mer : MeridiemInputs]

\* the date texts of the tests, and the two examples of the documentation
LiteralDates ==
    { [shape |-> "None", text |-> None],
      [shape |-> "empty", text |-> Some(<<>>)],
      [shape |-> "blank", text |-> Some(<<" ">>)],
      [shape |-> "Invalid date",
       text |-> Some(<<"I", "n", "v", "a", "l", "i", "d", " ", "d", "a", "t", "e">>)],
      [shape |-> "Mar, 15th 2:30 PM",
       text |-> Some(<<"M", "a", "r", ",", " ", "1", "5", "t", "h", " ", "2", ":", "3", "0",
                       " ", "P", "M">>)],
      [shape |-> "Apr, 1st 12:05 AM",
       text |-> Some(<<"A", "p", "r", ",", " ", "1", "s", "t", " ", "1", "2", ":", "0", "5",
                       " ", "A", "M">>)] }

YearInputs == {None, Some(0), Some(2023), Some(2024), Some(10000)}
NowYears == {2025, 2028}

----------------------------------------------------------------------------
(* The calls of the two pure functions *)

NoInput == [shape |-> "none"]

\* the description of a document that is not a page of meetings
NoPage(kind) ==
    [kind |-> kind, shape |-> [cid |-> "", outside |-> "none", header |-> FALSE],
     items |-> <<>>]

ParseIdle ==
    /\ doc_in = NoPage("none")
    /\ html = <<>>
    /\ pc = "idle"
    /\ meeting_items = <<>>
    /\ i = 1
    /\ meetings = <<>>
    /\ ret = None
    /\ exc = ""
    /\ log = <<>>

IdIdle == url = <<>> /\ id_result = None /\ id_pc = "idle"

ToolIdle ==
    /\ tool = [name |-> "none"]
    /\ tpc = "idle"
    /\ playwright = "None"
    /\ context = "None"
    /\ driver = "none"
    /\ browser = "none"
    /\ logged_in = FALSE
    /\ texc = ""
    /\ raised = FALSE
    /\ pending = None
    /\ saved = None
    /\ caught = ""
    /\ tret = None
    /\ host_exc = ""

DateIdle ==
    /\ date_in = NoInput
    /\ date_str = None
    /\ year = None
    /\ now_year = 2025
    /\ iso = None
    /\ date_exc = ""
    /\ date_pc = "idle"

InitId ==
    /\ url \in UrlInputs
    /\ id_result = None
    /\ id_pc = "call"
    /\ DateIdle
    /\ ParseIdle
    /\ ToolIdle

CallParseMeetingId ==
    /\ id_pc = "call"
    /\ id_result' = parse_meeting_id(url)
    /\ id_pc' = "done"
    /\ UNCHANGED <<url, date_vars, parse_vars, tool_vars>>

NextId == CallParseMeetingId

SpecId == InitId /\ [][NextId]_vars

InitDate ==
    /\ \/ \E lit \in LiteralDates : date_in = lit /\ date_str = lit.text
       \/ \E in \in DateInputs :
             /\ date_in = in
             /\ date_str = Some(DateText(in.shape, in.mon, in.d, in.hh, in.mm, in.mer))
    /\ year \in YearInputs
    /\ now_year \in NowYears
    /\ iso = None
    /\ date_exc = ""
    /\ date_pc = "call"
    /\ IdIdle
    /\ ParseIdle
    /\ ToolIdle

CallParseDateToIso ==
    /\ date_pc = "call"
    /\ \E r \in {parse_date_to_iso(date_str, year, now_year)} :
           iso' = r.value /\ date_exc' = r.exc
    /\ date_pc' = "done"
    /\ UNCHANGED <<date_in, date_str, year, now_year, id_vars, parse_vars, tool_vars>>

NextDate == CallParseDateToIso

SpecDate == InitDate /\ [][NextDate]_vars

----------------------------------------------------------------------------
(* The month names given to parse_date_to_iso *)

\* month tokens: every month of the dictionary in some letter case, short
\* or long; a longer word with the prefix of a month; words whose first
\* three letters are no month; words shorter than three letters
MonthTokens ==
    { <<"J", "a", "n">>,
      <<"F", "E", "B">>,
      <<"m", "a", "r">>,
      <<"A", "p", "r", "i", "l">>,
      <<"M", "A", "Y">>,
      <<"j", "u", "n", "e">>,
      <<"J", "u", "l">>,
      <<"a", "u", "g">>,
      <<"S", "e", "p", "t">>,
      <<"O", "C", "T">>,
      <<"N", "o", "v">>,
      <<"d", "e", "c", "e", "m", "b", "e", "r">>,
      <<"M", "a", "r", "x">>,
      <<"X", "y", "z">>,
      <<"M", "a", "i">>,
      <<"J", "a">>,
      <<"J">> }

InitMonth ==
    /\ \E mon \in MonthTokens, d \in {1, 30, 31}, hh \in {9, 12},
          mer \in {<<"A", "M">>, <<"P", "M">>} :
          /\ date_in = [shape |-> "month", mon |-> mon, d |-> d, hh |-> hh, mm |-> 5,
                        mer |-> mer]
          /\ date_str = Some(DateText("plain", mon, d, hh, 5, mer))
    /\ year \in {None, Some(2023), Some(2024)}
    /\ now_year \in NowYears
    /\ iso = None
    /\ date_exc = ""
    /\ date_pc = "call"
    /\ IdIdle
    /\ ParseIdle
    /\ ToolIdle

SpecMonth == InitMonth /\ [][NextDate]_vars

----------------------------------------------------------------------------
(* The documents given to parse_meetings *)

\* the most items in a document
MaxItems == 2

El(tag, text, kids) ==
    [tag |-> tag, id |-> "", role |-> "", datacy |-> "", href |-> None,
     text |-> text, kids |-> kids]

\* An item of the page is described by
\*   href   : "none", "empty", "rec" (/recording/<k>), "share" (/share/<k>)
\*   title  : "none" (no h3), "empty", "blank", "text"
\*   date   : "none" (no date element), "nomatch", "invalid", "good"
\*   mark   : "ok", "norole", "nodatacy", "div" (both markers, on a div)
\*   layout : "wrapped" (h3 in a div that the date div follows, as on the
\*            page), "direct" (h3 and date div are children of the anchor)
ItemInputs ==
    { [href |-> h, title |-> t, date |-> "good", mark |-> "ok", layout |-> "wrapped"] :
          h \in {"none", "empty", "rec", "share"}, t \in {"none", "text"} }
    \cup { [href |-> "rec", title |-> t, date |-> "good", mark |-> "ok", layout |-> "wrapped"] :
          t \in {"empty", "blank"} }
    \cup { [href |-> "rec", title |-> "text", date |-> d, mark |-> "ok", layout |-> "wrapped"] :
          d \in {"none", "nomatch", "invalid"} }
    \cup { [href |-> "rec", title |-> "text", date |-> "good", mark |-> m, layout |-> "wrapped"] :
          m \in {"norole", "nodatacy", "div"} }
    \cup { [href |-> "rec", title |-> "text", date |-> "good", mark |-> "ok", layout |-> "direct"] }

ItemHref(v, k) ==
    CASE v.href = "none"  -> None
      [] v.href = "empty" -> Some(<<>>)
      [] v.href = "rec"   -> Some(<<"/">> \o RecordingWord \o <<"/", DigitChar(k)>>)
      [] v.href = "share" -> Some(<<"/", "s", "h", "a", "r", "e", "/", DigitChar(k)>>)

ItemTitle(v, k) ==
    CASE v.title = "none"  -> <<>>
      [] v.title = "empty" -> <<El("h3", <<>>, <<>>)>>
      [] v.title = "blank" -> <<El("h3", <<" ", "\n">>, <<>>)>>
      [] v.title = "text"  -> <<El("h3", <<" ", "T", DigitChar(k), "\n">>, <<>>)>>

ItemDate(v, k) ==
    CASE v.date = "none"    -> <<>>
      [] v.date = "nomatch" -> <<El("div", <<"s", "o", "o", "n">>, <<>>)>>
      [] v.date = "invalid" ->
             <<El("div", DateText("padded", <<"F", "e", "b">>, 30, k, 30, <<"P", "M">>), <<>>)>>
      [] v.date = "good"    ->
             <<El("div", DateText("padded", <<"M", "a", "r">>, 15, k, 30, <<"P", "M">>), <<>>)>>

Item(v, k) ==
    [tag    |-> IF v.mark = "div" THEN "div" ELSE "a",
     id     |-> "",
     role   |-> IF v.mark = "norole" THEN "" ELSE "article",
     datacy |-> IF v.mark = "nodatacy" THEN "other" ELSE "meeting-list-item",
     href   |-> ItemHref(v, k),
     text   |-> <<"\n">>,
     kids   |-> IF v.layout = "direct" THEN ItemTitle(v, k) \o ItemDate(v, k)
                ELSE <<El("div", <<>>, <<El("img", <<>>, <<>>)>>),
                       El("div", <<"\n">>,
                          <<El("div", <<>>, ItemTitle(v, k))>> \o ItemDate(v, k))>>]

GoodItem == [href |-> "rec", title |-> "text", date |-> "good", mark |-> "ok", layout |-> "wrapped"]

\* A document: a div holding a section with an optional header and the
\* items; the div has the id of the list or another one; an item may stand
\* outside of it, before or after
ShapeOfDoc ==
    { [cid |-> "infinite-scrollable-div", outside |-> "none", header |-> FALSE],
      [cid |-> "infinite-scrollable-div", outside |-> "none", header |-> TRUE],
      [cid |-> "infinite-scrollable-div", outside |-> "before", header |-> FALSE],
      [cid |-> "infinite-scrollable-div", outside |-> "after", header |-> TRUE],
      [cid |-> "other", outside |-> "none", header |-> TRUE] }

Doc(shape, vs) ==
    LET items  == [k \in 1..Len(vs) |-> Item(vs[k], k)]
        header == IF shape.header
                  THEN <<El("div", <<>>, <<El("span", <<"M", "a", "r", " ", "2", "0", "2", "2">>, <<>>)>>)>>
                  ELSE <<>>
        list   == [El("div", <<>>, <<El("section", <<"\n">>, header \o items)>>)
                      EXCEPT !.id = shape.cid]
        out    == <<El("section", <<>>, <<Item(GoodItem, 9)>>)>>
    IN  (IF shape.outside = "before" THEN out ELSE <<>>)
            \o <<list>>
            \o (IF shape.outside = "after" THEN out ELSE <<>>)

\* the documents without the list: the empty one and one plain div
PlainDocs ==
    { <<>>, <<El("div", <<"N", "o", " ", "m", "e", "e", "t", "i", "n", "g", "s">>, <<>>)>> }

InitDoc ==
    \/ \E d \in PlainDocs : doc_in = NoPage("plain") /\ html = d
    \/ \E sh \in ShapeOfDoc, n \in 0..MaxItems :
          \E vs \in [1..n -> ItemInputs] :
             /\ doc_in = [kind |-> "page", shape |-> sh, items |-> vs]
             /\ html = Doc(sh, vs)

----------------------------------------------------------------------------
(* parse_meetings *)

Init ==
    /\ InitDoc
    /\ pc = "start"
    /\ meeting_items = <<>>
    /\ i = 1
    /\ meetings = <<>>
    /\ ret = None
    /\ exc = ""
    /\ log = <<>>
    /\ now_year \in NowYears
    /\ date_in = NoInput /\ date_str = None /\ year = None /\ iso = None
    /\ date_exc = "" /\ date_pc = "idle"
    /\ IdIdle
    /\ ToolIdle

\* soup.find(id=...), the early return, and find_all of the items
Locate ==
    /\ pc = "start"
    /\ \E scrollable_div \in {find_id(html, "infinite-scrollable-div")} :
           IF scrollable_div = None
           THEN /\ ret' = Some(<<>>)
                /\ pc' = "done"
                /\ UNCHANGED meeting_items
           ELSE /\ meeting_items' =
                       find_all(html, Val(scrollable_div), "a", "article", "meeting-list-item")
                /\ pc' = "loop"
                /\ UNCHANGED ret
    /\ UNCHANGED <<doc_in, html, i, meetings, exc, log, id_vars, date_vars, tool_vars>>

\* one iteration of the for loop: the try around parse_meeting_data
ParseItem ==
    /\ pc = "loop"
    /\ i <= Len(meeting_items)
    /\ \E r \in {parse_meeting_data(html, meeting_items[i], now_year)} :
           IF r.exc = ""
           THEN /\ meetings' = Append(meetings, r.meeting)
                /\ i' = i + 1
                /\ UNCHANGED <<pc, exc, log>>
           ELSE IF r.exc = "ValueError"
           THEN /\ log' = Append(log, r.msg)
                /\ i' = i + 1
                /\ UNCHANGED <<pc, exc, meetings>>
           ELSE /\ exc' = r.exc
                /\ pc' = "done"
                /\ UNCHANGED <<i, meetings, log>>
    /\ UNCHANGED <<doc_in, html, meeting_items, ret, id_vars, date_vars, tool_vars>>

\* return meetings
Return ==
    /\ pc = "loop"
    /\ i > Len(meeting_items)
    /\ ret' = Some(meetings)
    /\ pc' = "done"
    /\ UNCHANGED <<doc_in, html, meeting_items, i, meetings, exc, log, id_vars, date_vars, tool_vars>>

Next == Locate \/ ParseItem \/ Return

Spec == Init /\ [][Next]_vars

----------------------------------------------------------------------------
(* Pages whose section mixes items with headers: the inputs of the walk
   over the preceding siblings in parse_meeting_data *)

\* the most children of the section
MaxKids == 3

\* The children of the section are described by their kind:
\*   "dec2021"  a div with the text "Dec 2021"
\*   "mar2022"  the header of the page: div > div > span "Mar 15th 2022"
\*   "today"    a div with the text "Today"
\*   "divider"  a div that holds an hr and no text
\*   "glued"    a div with the text "x2023"
\*   "long"     a div with the text "20231"
\*   "split"    a div with two spans, "Mar" and " 2024"
\*   "span2020" a span with the text "2020"
\*   "item"     a meeting item with a date text
\*   "nodate"   a meeting item without a date element
ChildInputs ==
    {"dec2021", "mar2022", "today", "divider", "glued", "long", "split", "span2020",
     "item", "nodate"}

Child(kind, k) ==
    CASE kind = "dec2021"  -> El("div", <<"D", "e", "c", " ", "2", "0", "2", "1">>, <<>>)
      [] kind = "mar2022"  -> El("div", <<"\n">>, <<El("div", <<"\n">>,
                                 <<El("span", <<"M", "a", "r", " ", "1", "5", "t", "h", " ", "2", "0", "2", "2">>, <<>>)>>)>>)
      [] kind = "today"    -> El("div", <<"T", "o", "d", "a", "y">>, <<>>)
      [] kind = "divider"  -> El("div", <<"\n">>, <<El("hr", <<>>, <<>>)>>)
      [] kind = "glued"    -> El("div", <<"x", "2", "0", "2", "3">>, <<>>)
      [] kind = "long"     -> El("div", <<"2", "0", "2", "3", "1">>, <<>>)
      [] kind = "split"    -> El("div", <<"\n">>, <<El("span", <<"M", "a", "r">>, <<>>),
                                                    El("span", <<" ", "2", "0", "2", "4">>, <<>>)>>)
      [] kind = "span2020" -> El("span", <<"2", "0", "2", "0">>, <<>>)
      [] kind = "item"     -> Item(GoodItem, k)
      [] kind = "nodate"   -> Item([GoodItem EXCEPT !.date = "none"], k)

\* the page: the list div, a section, and the children of the section
YearDoc(kinds) ==
    <<[El("div", <<"\n">>,
          <<El("section", <<"\n">>, [k \in 1..Len(kinds) |-> Child(kinds[k], k)])>>)
         EXCEPT !.id = "infinite-scrollable-div"]>>

\* the path of the k-th child of the section in YearDoc
ChildPath(k) == <<1, 1, k>>

InitYear ==
    /\ \E n \in 0..MaxKids :
          \E kinds \in [1..n -> ChildInputs] :
             /\ doc_in = [kind |-> "years",
                          shape |-> [cid |-> "infinite-scrollable-div", outside |-> "none",
                                     header |-> FALSE],
                          items |-> kinds]
             /\ html = YearDoc(kinds)
    /\ pc = "start"
    /\ meeting_items = <<>>
    /\ i = 1
    /\ meetings = <<>>
    /\ ret = None
    /\ exc = ""
    /\ log = <<>>
    /\ now_year \in NowYears
    /\ date_in = NoInput /\ date_str = None /\ year = None /\ iso = None
    /\ date_exc = "" /\ date_pc = "idle"
    /\ IdIdle
    /\ ToolIdle

SpecYear == InitYear /\ [][Next]_vars

----------------------------------------------------------------------------
(* The tools of the server and the browser session *)

\* the most meetings on the page read by the get_all_meetings tool
MaxMeetings == 2

BASE_URL == "https://grain.com/"
TRANSCRIPTIONS_ENDPOINT_TEMPLATE == "_/cc/recording/%s/transcript.%s"

\* TRANSCRIPTIONS_ENDPOINT_TEMPLATE % (meeting_id, transcription_type),
\* after BASE_URL
DownloadUrl(meeting_id, transcription_type) ==
    <<BASE_URL, "_/cc/recording/", meeting_id, "/transcript.", transcription_type>>

\* what the browser, the file system and the parser raise: all of them
\* subclasses of Exception
Raised == {"Error", "TimeoutError"}

\* an except clause that catches timeouts only
ToolCatches_timeout_only(e) == e = "TimeoutError"

\* the except clause of both tools: except Exception
ToolCatches(e) == e \in Raised

ToolInputs ==
    { [name |-> "get_all_meetings", absolute_save_path |-> "", meeting_id |-> "",
       transcription_type |-> ""] }
    \cup { [name |-> "download_meeting_transcript", absolute_save_path |-> "/tmp/t",
            meeting_id |-> m, transcription_type |-> t] :
               m \in {"abc", "def"}, t \in {"vtt", "srt"} }

InitTool ==
    /\ tool \in ToolInputs
    /\ tpc = "aenter"
    /\ playwright = "None"
    /\ context = "None"
    /\ driver = "none"
    /\ browser = "none"
    /\ logged_in = FALSE
    /\ texc = ""
    /\ raised = FALSE
    /\ pending = None
    /\ saved = None
    /\ caught = ""
    /\ tret = None
    /\ host_exc = ""
    /\ ParseIdle
    /\ IdIdle
    /\ DateIdle

\* __aenter__: self.__playwright = await async_playwright().start()
StartPlaywright ==
    /\ tpc = "aenter"
    /\ \/ /\ driver' = "running"
          /\ playwright' = "set"
          /\ tpc' = "launch"
          /\ UNCHANGED <<texc, raised>>
       \/ \E e \in Raised :
             /\ texc' = e
             /\ raised' = TRUE
             /\ tpc' = "except"
             /\ UNCHANGED <<driver, playwright>>
    /\ UNCHANGED <<tool, context, browser, logged_in, pending, saved, caught, tret,
                   host_exc, parse_vars, id_vars, date_vars>>

\* __aenter__: mkdir and launch_persistent_context; when it raises, the
\* async with statement does not call __aexit__
LaunchContext ==
    /\ tpc = "launch"
    /\ \/ /\ browser' = "open"
          /\ context' = "set"
          /\ tpc' = "login"
          /\ UNCHANGED <<texc, raised>>
       \/ \E e \in Raised :
             /\ texc' = e
             /\ raised' = TRUE
             /\ tpc' = "except"
             /\ UNCHANGED <<browser, context>>
    /\ UNCHANGED <<tool, playwright, driver, logged_in, pending, saved, caught, tret,
                   host_exc, parse_vars, id_vars, date_vars>>

\* __login: it raises when opening or loading the page raises; a failure of
\* the wait for the manual login is logged and swallowed
Login ==
    /\ tpc = "login"
    /\ \/ /\ logged_in' \in BOOLEAN
          /\ tpc' = IF tool.name = "get_all_meetings" THEN "fetch" ELSE "goto"
          /\ UNCHANGED <<texc, raised>>
       \/ \E e \in Raised :
             /\ texc' = e
             /\ raised' = TRUE
             /\ tpc' = "aexit"
             /\ UNCHANGED logged_in
    /\ UNCHANGED <<tool, playwright, context, driver, browser, pending, saved, caught,
                   tret, host_exc, parse_vars, id_vars, date_vars>>

\* Grain.get_all_meetings after the login: load the page, read its content,
\* parse_meetings; and the return of the list of dicts inside the with block
FetchMeetings ==
    /\ tpc = "fetch"
    /\ \/ \E n \in 0..MaxMeetings :
             /\ pending' = Some([k \in 1..n |-> [id |-> k]])
             /\ tpc' = "aexit"
             /\ UNCHANGED <<texc, raised>>
       \/ \E e \in Raised :
             /\ texc' = e
             /\ raised' = TRUE
             /\ tpc' = "aexit"
             /\ UNCHANGED pending
    /\ UNCHANGED <<tool, playwright, context, driver, browser, logged_in, saved, caught,
                   tret, host_exc, parse_vars, id_vars, date_vars>>

\* __download_file: new_page and page.goto inside expect_download; the
\* navigation error "net::ERR_ABORTED" is expected and swallowed, any other
\* is raised again
GotoDownload ==
    /\ tpc = "goto"
    /\ \/ /\ tpc' = "download"
          /\ UNCHANGED <<texc, raised>>
       \/ \E e \in Raised :
             /\ texc' = e
             /\ raised' = TRUE
             /\ tpc' = "aexit"
    /\ UNCHANGED <<tool, playwright, context, driver, browser, logged_in, pending, saved,
                   caught, tret, host_exc, parse_vars, id_vars, date_vars>>

\* __download_file: the wait for the download, download.save_as(save_path);
\* and the return True inside the with block
SaveDownload ==
    /\ tpc = "download"
    /\ \/ /\ saved' = Some([path |-> tool.absolute_save_path,
                              from |-> DownloadUrl(tool.meeting_id, tool.transcription_type)])
          /\ pending' = Some(TRUE)
          /\ tpc' = "aexit"
          /\ UNCHANGED <<texc, raised>>
       \/ \E e \in Raised :
             /\ texc' = e
             /\ raised' = TRUE
             /\ tpc' = "aexit"
             /\ UNCHANGED <<saved, pending>>
    /\ UNCHANGED <<tool, playwright, context, driver, browser, logged_in, caught, tret,
                   host_exc, parse_vars, id_vars, date_vars>>

\* __aexit__: if self.__context: await self.__context.close(); when close
\* raises, the rest of __aexit__ is skipped and the browser context is left
\* open or closed
CloseContext ==
    /\ tpc = "aexit"
    /\ IF context = "None"
       THEN /\ tpc' = "stop"
            /\ UNCHANGED <<browser, context, texc, raised, pending>>
       ELSE \/ /\ browser' = "closed"
               /\ context' = "None"
               /\ tpc' = "stop"
               /\ UNCHANGED <<texc, raised, pending>>
            \/ \E e \in Raised :
                  /\ texc' = e
                  /\ raised' = TRUE
                  /\ pending' = None
                  /\ browser' \in {"open", "closed"}
                  /\ tpc' = "except"
                  /\ UNCHANGED context
    /\ UNCHANGED <<tool, playwright, driver, logged_in, saved, caught, tret, host_exc,
                   parse_vars, id_vars, date_vars>>

\* __aexit__: if self.__playwright: await self.__playwright.stop(); then the
\* with statement ends: an exception of the body goes on, a return completes
StopPlaywright ==
    /\ tpc = "stop"
    /\ IF playwright = "None"
       THEN /\ tpc' = IF texc # "" THEN "except" ELSE "return"
            /\ UNCHANGED <<driver, playwright, texc, raised, pending>>
       ELSE \/ /\ driver' = "stopped"
               /\ playwright' = "None"
               /\ tpc' = IF texc # "" THEN "except" ELSE "return"
               /\ UNCHANGED <<texc, raised, pending>>
            \/ \E e \in Raised :
                  /\ texc' = e
                  /\ raised' = TRUE
                  /\ pending' = None
                  /\ tpc' = "except"
                  /\ UNCHANGED <<driver, playwright>>
    /\ UNCHANGED <<tool, context, browser, logged_in, saved, caught, tret, host_exc,
                   parse_vars, id_vars, date_vars>>

\* the value both tools return after their except clause
ToolDefault(name) == IF name = "get_all_meetings" THEN Some(<<>>) ELSE Some(FALSE)

\* except Exception: log it; then return [] / return False.  An exception
\* the clause does not catch leaves the tool
ExceptClause ==
    /\ tpc = "except"
    /\ IF ToolCatches(texc)
       THEN /\ caught' = texc
            /\ texc' = ""
            /\ tret' = ToolDefault(tool.name)
            /\ tpc' = "returned"
            /\ UNCHANGED host_exc
       ELSE /\ host_exc' = texc
            /\ texc' = ""
            /\ tpc' = "crashed"
            /\ UNCHANGED <<caught, tret>>
    /\ UNCHANGED <<tool, playwright, context, driver, browser, logged_in, raised, pending,
                   saved, parse_vars, id_vars, date_vars>>

\* the return statement of the with block completes
ReturnValue ==
    /\ tpc = "return"
    /\ tret' = pending
    /\ tpc' = "returned"
    /\ UNCHANGED <<tool, playwright, context, driver, browser, logged_in, texc, raised,
                   pending, saved, caught, host_exc, parse_vars, id_vars, date_vars>>

NextTool ==
    \/ StartPlaywright
    \/ LaunchContext
    \/ Login
    \/ FetchMeetings
    \/ GotoDownload
    \/ SaveDownload
    \/ CloseContext
    \/ StopPlaywright
    \/ ExceptClause
    \/ ReturnValue

SpecTool == InitTool /\ [][NextTool]_vars

----------------------------------------------------------------------------
(* Properties of parse_meetings *)

\* the elements of the document
AllPaths == LET all == Descendants(html, <<>>) IN {all[k] : k \in 1..Len(all)}

\* p lies inside the element c
Inside(p, c) == Len(p) > Len(c) /\ SubSeq(p, 1, Len(c)) = c

\* the anchors that carry both markers of a meeting entry
MarkedAnchors ==
    {p \in AllPaths : /\ NodeAt(html, p).tag = "a"
                      /\ NodeAt(html, p).role = "article"
                      /\ NodeAt(html, p).datacy = "meeting-list-item"}

Containers == {p \in AllPaths : NodeAt(html, p).id = "infinite-scrollable-div"}

HrefAt(p) == NodeAt(html, p).href

\* the three required fields of the item at p can be extracted: it has a
\* heading, it has a href, and the href yields an id
RECURSIVE HoldsHeading(_)
HoldsHeading(node) ==
    \E k \in 1..Len(node.kids) : node.kids[k].tag = "h3" \/ HoldsHeading(node.kids[k])

HasHeading(p) == HoldsHeading(NodeAt(html, p))
HasId(p) == HrefAt(p) # None /\ parse_meeting_id(Val(HrefAt(p))) # None
Extractable(p) == HasHeading(p) /\ HasId(p)

Returned == Val(ret)

C2_TitleNeverEmpty ==
    (pc = "done" /\ ret # None) =>
        \A k \in 1..Len(Returned) : Returned[k].title # <<>>

\* C3: every Meeting returned by parse_meetings has a non-empty id and a
\* non-empty url, and it comes from a located item whose href is present
\* and yields that id; an item without such a href gives no record.
C3_IdAndUrlNeverEmpty ==
    (pc = "done" /\ ret # None) =>
        /\ \A k \in 1..Len(Returned) :
              /\ Returned[k].id # <<>>
              /\ Returned[k].url # <<>>
              /\ \E j \in 1..Len(meeting_items) :
                    /\ HrefAt(meeting_items[j]) = Some(Returned[k].url)
                    /\ parse_meeting_id(Returned[k].url) = Some(Returned[k].id)
        /\ Len(Returned) <= Len(SelectSeq(meeting_items, HasId))

\* C3 witness: a document with an item whose href is the empty string,
\* from which another item is returned
C3_Witness ==
    /\ pc = "done"
    /\ ret # None
    /\ Len(Returned) > 0
    /\ \E j \in 1..Len(meeting_items) : HrefAt(meeting_items[j]) = Some(<<>>)

\* C5: parse_meetings returns the empty list for a document without the
\* container and for a document whose container holds no anchor with both
\* markers; an anchor outside the container is never returned.
C5_EmptyWithoutContainerOrItems ==
    pc = "done" =>
        LET cs == Containers
            as == MarkedAnchors
        IN  /\ cs = {} => ret = Some(<<>>)
            /\ (\A c \in cs : \A p \in as : ~Inside(p, c)) => ret = Some(<<>>)
            /\ ret # None =>
                   \A k \in 1..Len(Returned) :
                      \E c \in cs : \E p \in as :
                         Inside(p, c) /\ HrefAt(p) = Some(Returned[k].url)
            /\ ret # None =>
                   \A p \in as :
                      (\A c \in cs : ~Inside(p, c)) =>
                         \A k \in 1..Len(Returned) : Some(Returned[k].url) # HrefAt(p)

\* C5 witness: a document without the container, but with marked anchors,
\* has been parsed
C5_Witness ==
    /\ pc = "done"
    /\ Containers = {}
    /\ MarkedAnchors # {}
    /\ ret = Some(<<>>)

\* the item at position k of the page is located and has its three
\* required fields
ItemComplete(k) ==
    /\ doc_in.items[k].mark = "ok"
    /\ doc_in.items[k].href = "rec"
    /\ doc_in.items[k].title # "none"

\* the year the page gives to its items: that of the header, else the
\* current one
PageYear == IF doc_in.shape.header THEN 2022 ELSE now_year

----------------------------------------------------------------------------
(* Properties of parse_meeting_id *)

\* u.split("/")
RECURSIVE Split(_)
Split(u) ==
    LET cuts == {k \in 1..Len(u) : u[k] = "/"}
    IN  IF cuts = {} THEN <<u>>
        ELSE LET k == CHOOSE x \in cuts : \A y \in cuts : x <= y
             IN  <<SubSeq(u, 1, k - 1)>> \o Split(SubSeq(u, k + 1, Len(u)))

\* the segment after the first segment that is literally "recording" or
\* "recordings" and is followed by a non-empty segment; None without one
AfterRecordingSegment(u) ==
    LET segs == Split(u)
        hits == {k \in 1..(Len(segs) - 1) :
                    /\ segs[k] \in {RecordingWord, RecordingWord \o <<"s">>}
                    /\ segs[k + 1] # <<>>}
    IN  IF hits = {} THEN None
        ELSE Some(segs[(CHOOSE x \in hits : \A y \in hits : x <= y) + 1])

\* C4: parse_meeting_id(url) is the segment that follows a path segment
\* that is literally "recording" or "recordings", and None for every URL
\* without such a segment followed by a non-empty one.
C4_SegmentAfterLiteralRecording ==
    id_pc = "done" => id_result = AfterRecordingSegment(url)

----------------------------------------------------------------------------
(* Properties of parse_date_to_iso *)

\* the date text follows the pattern "<Month>, <Day><suffix?> <Hour>:<Minute> <AM|PM>"
Shaped == date_in.shape \in {"plain", "suffix", "padded"}

\* the date text is made from the fields of date_in
Generated == date_in.shape \in ShapeInputs

\* the month a month name of the inputs stands for
MonthOfInput ==
    CASE date_in.mon = <<"M", "a", "r">> -> 3
      [] date_in.mon = <<"f", "e", "b">> -> 2
      [] date_in.mon = <<"A", "p", "r", "i", "l">> -> 4
      [] OTHER -> 1

UseYear == IF year = None THEN now_year ELSE Val(year)

\* the fields of the date text and the year form a date of the calendar
CalendarDate ==
    /\ UseYear \in 1..9999
    /\ date_in.d >= 1
    /\ date_in.d <= (IF MonthOfInput = 2
                     THEN (IF UseYear % 4 = 0 /\ (UseYear % 100 # 0 \/ UseYear % 400 = 0)
                           THEN 29 ELSE 28)
                     ELSE IF MonthOfInput = 4 THEN 30 ELSE 31)

HourOf(t) == ToInt(SubSeq(t, 12, 13))
MinuteOf(t) == ToInt(SubSeq(t, 15, 16))
SecondOf(t) == ToInt(SubSeq(t, 18, 19))

IsPM == date_in.mer \in {<<"P", "M">>, <<"p", "m">>}

\* C7: for a text of the pattern with hour h in 1..12 and minute m in 0..59
\* (and a day and year that exist), the timestamp has hour h+12 for PM and
\* h < 12, hour 0 for AM and h = 12, hour h otherwise, minute m, second 0;
\* "Mar, 15th 2:30 PM" in 2023 is 2023-03-15T14:30:00 and
\* "Apr, 1st 12:05 AM" in 2024 is 2024-04-01T00:05:00.
C7_TwelveHourConversion ==
    date_pc = "done" =>
        /\ (Shaped /\ date_in.hh \in 1..12 /\ date_in.mm \in 0..59 /\ CalendarDate) =>
              /\ iso # None
              /\ HourOf(Val(iso)) = (IF IsPM /\ date_in.hh < 12 THEN date_in.hh + 12
                                     ELSE IF ~IsPM /\ date_in.hh = 12 THEN 0
                                     ELSE date_in.hh)
              /\ MinuteOf(Val(iso)) = date_in.mm
              /\ SecondOf(Val(iso)) = 0
        /\ (date_in.shape = "Mar, 15th 2:30 PM" /\ year = Some(2023)) =>
              iso = Some(<<"2", "0", "2", "3", "-", "0", "3", "-", "1", "5", "T",
                           "1", "4", ":", "3", "0", ":", "0", "0">>)
        /\ (date_in.shape = "Apr, 1st 12:05 AM" /\ year = Some(2024)) =>
              iso = Some(<<"2", "0", "2", "4", "-", "0", "4", "-", "0", "1", "T",
                           "0", "0", ":", "0", "5", ":", "0", "0">>)

\* C7 witness: 12 AM has been converted to hour 0
C7_Witness ==
    /\ date_pc = "done"
    /\ Shaped
    /\ date_in.hh = 12
    /\ ~IsPM
    /\ iso # None
    /\ HourOf(Val(iso)) = 0

\* C10: parse_date_to_iso returns a timestamp only for a text of the
\* pattern with Day in 1..31, Hour in 1..12, Minute in 0..59 and a meridiem.
C10_OnlyTwelveHourTexts ==
    (date_pc = "done" /\ Generated /\ iso # None) =>
        /\ Shaped
        /\ date_in.d \in 1..31
        /\ date_in.hh \in 1..12
        /\ date_in.mm \in 0..59

----------------------------------------------------------------------------
(* Properties of the year of an item *)

\* the children of the section of a page of SpecYear
SectionKids == NodeAt(html, <<1, 1>>).kids

\* the text of an element as the document holds it: its text nodes in
\* document order
RECURSIVE TextContent(_)
RECURSIVE TextContentAll(_, _)
TextContent(node) == node.text \o TextContentAll(node.kids, 1)
TextContentAll(nodes, k) ==
    IF k > Len(nodes) THEN <<>>
    ELSE TextContent(nodes[k]) \o TextContentAll(nodes, k + 1)

\* the positions of text where a standalone token 20dd starts: no letter,
\* digit or underscore stands next to it
YearTokens(text) ==
    {p \in 1..(Len(text) - 3) :
        /\ text[p] = "2" /\ text[p + 1] = "0"
        /\ text[p + 2] \in Digit /\ text[p + 3] \in Digit
        /\ (p = 1 \/ text[p - 1] \notin WordChar)
        /\ (p + 4 > Len(text) \/ text[p + 4] \notin WordChar)}

\* the year the k-th child of the section shows when it is a div
HeaderYear(k) ==
    LET text == TextContent(SectionKids[k])
        ps   == YearTokens(text)
    IN  IF SectionKids[k].tag # "div" \/ ps = {} THEN None
        ELSE LET p == CHOOSE x \in ps : \A y \in ps : x <= y
             IN  Some(2000 + 10 * DigitVal(text[p + 2]) + DigitVal(text[p + 3]))

\* the year of the nearest div before the k-th child that shows one
NearestYear(k) ==
    LET shown == {j \in 1..(k - 1) : HeaderYear(j) # None}
    IN  IF shown = {} THEN None
        ELSE HeaderYear(CHOOSE j \in shown : \A m \in shown : m <= j)

\* the year parse_meeting_data recovers for the item at path p
RecoveredYear(p) == YearFrom(html, find_previous_sibling(html, p, "div"))

\* C11: the year recovered for an item is the year of the nearest preceding
\* div sibling whose text holds a standalone token 20dd; siblings of other
\* types, divs without such a token and following siblings do not count,
\* and the year is None when no preceding div holds one.
C11_NearestPrecedingDivYear ==
    (pc = "done" /\ doc_in.kind = "years") =>
        \A j \in 1..Len(meeting_items) :
            RecoveredYear(meeting_items[j]) = NearestYear(meeting_items[j][3])

YearOf(t) == ToInt(SubSeq(t, 1, 4))
MonthOf(t) == ToInt(SubSeq(t, 6, 7))
DayOf(t) == ToInt(SubSeq(t, 9, 10))

\* C12: every returned Meeting with a date has the year recovered for its
\* item, or the current year when none was recovered, and the month, day,
\* hour and minute of its own date text ("Mar, 15th k:30 PM" for the k-th
\* child of the section).
C12_YearRecoveredOrCurrent ==
    (pc = "done" /\ doc_in.kind = "years" /\ ret # None) =>
        \A m \in 1..Len(Returned) :
            Returned[m].date # None =>
                LET k == DigitVal(Returned[m].id[1])
                    y == RecoveredYear(ChildPath(k))
                    t == Val(Returned[m].date)
                IN  /\ doc_in.items[k] = "item"
                    /\ YearOf(t) = (IF y = None THEN now_year ELSE Val(y))
                    /\ MonthOf(t) = 3
                    /\ DayOf(t) = 15
                    /\ HourOf(t) = k + 12
                    /\ MinuteOf(t) = 30
                    /\ SecondOf(t) = 0

\* C12 witness: of two returned meetings, one has the year of a header
\* and the other the current year
C12_Witness ==
    /\ pc = "done"
    /\ doc_in.kind = "years"
    /\ ret # None
    /\ \E a, b \in 1..Len(Returned) :
          /\ Returned[a].date # None /\ Returned[b].date # None
          /\ YearOf(Val(Returned[a].date)) = now_year
          /\ YearOf(Val(Returned[b].date)) = 2021
          /\ RecoveredYear(ChildPath(DigitVal(Returned[b].id[1]))) = Some(2021)

----------------------------------------------------------------------------
(* Properties of the month of a date text *)

\* the three-letter prefixes of the months, January first
MonthPrefixes ==
    << <<"j", "a", "n">>,
       <<"f", "e", "b">>,
       <<"m", "a", "r">>,
       <<"a", "p", "r">>,
       <<"m", "a", "y">>,
       <<"j", "u", "n">>,
       <<"j", "u", "l">>,
       <<"a", "u", "g">>,
       <<"s", "e", "p">>,
       <<"o", "c", "t">>,
       <<"n", "o", "v">>,
       <<"d", "e", "c">> >>

\* the month a token stands for: the place of its lower-cased first three
\* letters among the prefixes, January for any other token
ExpectedMonth(token) ==
    LET key == [k \in 1..(IF Len(token) < 3 THEN Len(token) ELSE 3) |-> Lower(token[k])]
        ns  == {n \in 1..12 : MonthPrefixes[n] = key}
    IN  IF ns = {} THEN 1 ELSE CHOOSE n \in ns : TRUE

\* C13: the month of the timestamp is the month whose three-letter prefix
\* starts the month token, whatever the letter case, and January for a
\* token with another prefix; such a token gives a timestamp, not None and
\* not an exception.
C13_MonthFromPrefix ==
    (date_pc = "done" /\ date_in.shape = "month") =>
        /\ date_exc = ""
        /\ iso # None => MonthOf(Val(iso)) = ExpectedMonth(date_in.mon)
        /\ date_in.d = 1 => iso # None

\* C13 witness: a token with an unknown prefix has given a date in January
C13_Witness ==
    /\ date_pc = "done"
    /\ date_in.shape = "month"
    /\ date_in.mon = <<"X", "y", "z">>
    /\ date_in.d = 31
    /\ iso # None
    /\ MonthOf(Val(iso)) = 1

----------------------------------------------------------------------------
(* Properties of the tools *)

\* C9: no exception leaves a tool; when a step of the session has raised,
\* get_all_meetings returns [] and download_meeting_transcript returns
\* False; download_meeting_transcript returns True only when the file was
\* saved and nothing has raised.
C9_ToolsNeverRaise ==
    /\ host_exc = ""
    /\ tpc # "crashed"
    /\ tpc = "returned" =>
          /\ tret # None
          /\ (raised /\ tool.name = "get_all_meetings") => tret = Some(<<>>)
          /\ (raised /\ tool.name = "download_meeting_transcript") => tret = Some(FALSE)
          /\ (tool.name = "download_meeting_transcript" /\ tret = Some(TRUE)) =>
                 saved # None /\ ~raised

\* C9 witness: the transcript was saved, closing the browser raised, and the
\* tool has returned False
C9_Witness ==
    /\ tpc = "returned"
    /\ tool.name = "download_meeting_transcript"
    /\ saved # None
    /\ raised
    /\ tret = Some(FALSE)

\* C14: when a tool has returned, every Playwright driver that was started
\* has been stopped, every browser context that was launched has been
\* closed, and the session holds neither reference any more, whatever
\* step has raised.
C14_SessionReleased ==
    tpc = "returned" =>
        /\ driver # "running"
        /\ browser # "open"
        /\ context = "None"
        /\ playwright = "None"

====
